---- MODULE Spec2Model ----
(***************************************************************************)
(* Model of the image-to-webp converter (src/src/main.rs).                 *)
(*                                                                         *)
(* One invocation of the tool is one run of main(): validation, scan,      *)
(* skip filter, the rayon parallel for_each over the files to convert,     *)
(* and the summary.  The output tree persists from one run to the next.    *)
(* The worker threads of the pool interleave at their filesystem calls     *)
(* and at their atomic operations.                                         *)
(***************************************************************************)
EXTENDS Integers, Sequences, FiniteSets, TLC

\* ------------------------------------------------------------------ bounds
NumFiles == 5          \* regular files that can be in the input tree: FileTable(1..NumFiles)
MaxRuns == 2           \* consecutive invocations of the tool over the same trees
MaxSize == 12           \* byte sizes 0..MaxSize tried by the savings computation
MaxWorkersArg == 1     \* largest value of --workers tried
HostCores == 2         \* what thread::available_parallelism() reports when Ok

\* ------------------------------------------------------- program constants
DefaultParallelism == 4          \* .unwrap_or(4)
ExitFailure == 1                 \* std::process::exit(1)
ExitPanic == 101                 \* exit status of a Rust process whose main thread panicked

Upper == <<"A","B","C","D","E","F","G","H","I","J","K","L","M",
           "N","O","P","Q","R","S","T","U","V","W","X","Y","Z">>
Lower == <<"a","b","c","d","e","f","g","h","i","j","k","l","m",
           "n","o","p","q","r","s","t","u","v","w","x","y","z">>

\* str::to_lowercase on one character / on an extension (a sequence of characters)
ToLowerChar(c) ==
    IF \E i \in 1..Len(Upper) : Upper[i] = c
    THEN Lower[CHOOSE i \in 1..Len(Upper) : Upper[i] = c]
    ELSE c

to_lowercase(s) == [i \in 1..Len(s) |-> ToLowerChar(s[i])]

SUPPORTED_EXTENSIONS ==
    { <<"j","p","g">>, <<"j","p","e","g">>, <<"p","n","g">>, <<"g","i","f">>,
      <<"b","m","p">>, <<"t","i","f","f">>, <<"t","i","f">> }

WebpExt == <<"w","e","b","p">>

\* ------------------------------------------------------------ environment
\* --input and --output; a path is [dir, stem, ext], ext = << >> when the file
\* name has no extension.
input_dir == <<"in">>
output_dir == <<"out">>

\* The regular files an input tree is made of, in the order WalkDir yields them.
FileTable(f) ==
    CASE f = 1 -> [dir |-> <<"in">>,        stem |-> "a",      ext |-> <<"j","p","g">>,
                   size |-> 1000, corrupt |-> FALSE, encoded |-> 500]
      [] f = 2 -> [dir |-> <<"in">>,        stem |-> "notes",  ext |-> <<"t","x","t">>,
                   size |-> 20,   corrupt |-> TRUE,  encoded |-> 0]
      [] f = 3 -> [dir |-> <<"in","sub">>,  stem |-> "b",      ext |-> <<"P","N","G">>,
                   size |-> 300,  corrupt |-> TRUE,  encoded |-> 0]
      [] f = 4 -> [dir |-> <<"in">>,        stem |-> "a",      ext |-> <<"J","p","e","g">>,
                   size |-> 400,  corrupt |-> FALSE, encoded |-> 450]
      [] f = 5 -> [dir |-> <<"in">>,        stem |-> "README", ext |-> << >>,
                   size |-> 7,    corrupt |-> TRUE,  encoded |-> 0]
      [] OTHER -> [dir |-> <<"in","sub">>,  stem |-> "old",    ext |-> <<"w","e","b","p">>,
                   size |-> 90,   corrupt |-> FALSE, encoded |-> 80]

AllFiles == 1..NumFiles

PathOf(f) == [dir |-> FileTable(f).dir, stem |-> FileTable(f).stem, ext |-> FileTable(f).ext]


\* ---------------------------------------------------------- pure functions
HasPrefix(s, pre) == Len(pre) <= Len(s) /\ SubSeq(s, 1, Len(pre)) = pre

\* Path::strip_prefix(input_dir).unwrap_or(input_path)
strip_prefix(p, base) ==
    IF HasPrefix(p.dir, base)
    THEN [p EXCEPT !.dir = SubSeq(p.dir, Len(base) + 1, Len(p.dir))]
    ELSE p

\* PathBuf::set_extension
set_extension(p, e) == [p EXCEPT !.ext = e]

get_output_path(input_path, in_dir, out_dir) ==
    LET rel == strip_prefix(input_path, in_dir)
        out == [rel EXCEPT !.dir = out_dir \o rel.dir]
    IN  set_extension(out, WebpExt)

\* Mutant of IsSupported: the extension is compared without to_lowercase.
IsSupportedCaseSensitive(p) == p.ext # << >> /\ p.ext \in SUPPORTED_EXTENSIONS

\* The extension test of get_image_files' last filter.
IsSupported(p) == p.ext # << >> /\ to_lowercase(p.ext) \in SUPPORTED_EXTENSIONS

RECURSIVE ScanFrom(_, _)
ScanFrom(f, present) ==
    IF f > NumFiles THEN << >>
    ELSE (IF f \in present /\ IsSupported(PathOf(f)) THEN <<f>> ELSE << >>)
         \o ScanFrom(f + 1, present)

\* get_image_files: the regular files with a supported extension, in walk order.
get_image_files(present) == ScanFrom(1, present)

\* Mutant of PathExists: the existence test looks at a path that is never there.
exists_elsewhere(fs, p) == FALSE

\* Path::exists on the output tree; fs maps each existing path to its content.
PathExists(fs, p) == p \in DOMAIN fs

RECURSIVE FilterFrom(_, _, _)
FilterFrom(i, all, fs) ==
    IF i > Len(all) THEN [to_convert |-> << >>, skipped |-> 0]
    ELSE LET rest == FilterFrom(i + 1, all, fs)
         IN  IF PathExists(fs, get_output_path(PathOf(all[i]), input_dir, output_dir))
             THEN [rest EXCEPT !.skipped = @ + 1]
             ELSE [rest EXCEPT !.to_convert = <<all[i]>> \o @]

\* Mutant of filter_already_converted: of the candidates that map to one output path
\* only the first is pushed.
filter_dedup(all, fs) ==
    LET r == FilterFrom(1, all, fs)
        first(f) == \A i \in DOMAIN r.to_convert :
                       (r.to_convert[i] < f) =>
                          get_output_path(PathOf(r.to_convert[i]), input_dir, output_dir)
                             # get_output_path(PathOf(f), input_dir, output_dir)
    IN  [to_convert |-> SelectSeq(r.to_convert, first), skipped |-> r.skipped]

\* Mutant of filter_already_converted: a skipped file is counted and still pushed.
filter_keep_all(all, fs) == [to_convert |-> all, skipped |-> FilterFrom(1, all, fs).skipped]

filter_already_converted(all, fs) == FilterFrom(1, all, fs)

\* Mutant of RoundDiv: the quotient is truncated instead of rounded.
TruncDiv(a, b) ==
    IF a >= 0 THEN a \div b ELSE -((-a) \div b)

\* f64::round of a/b for b > 0: half away from zero.
RoundDiv(a, b) ==
    IF a >= 0 THEN (2 * a + b) \div (2 * b)
    ELSE -((2 * (-a) + b) \div (2 * b))

\* ((1.0 - new/orig) * 10000.0).round() / 100.0, kept in hundredths of a percent.
Savings(original_size, new_size) ==
    IF original_size > 0
    THEN RoundDiv((original_size - new_size) * 10000, original_size)
    ELSE 0

\* main's total_savings: the same expression on the two totals.
total_savings(total_orig, total_nw) ==
    IF total_orig > 0
    THEN RoundDiv((total_orig - total_nw) * 10000, total_orig)
    ELSE 0

\* fs::write: create or truncate the file at path.
\* Mutant of WriteFile: an existing file is left as it is.
WriteFileNoClobber(fs, path, data) ==
    IF path \in DOMAIN fs THEN fs
    ELSE [q \in DOMAIN fs \cup {path} |-> IF q = path THEN data ELSE fs[q]]

WriteFile(fs, path, data) ==
    [p \in (DOMAIN fs) \cup {path} |-> IF p = path THEN data ELSE fs[p]]


\* ------------------------------------------------------------------ state
VARIABLES
    run,            \* number of this invocation, 1..MaxRuns
    pc,             \* position of main(): start, mkout, scan, filter, convert, exited
    exitCode,       \* -1 while running, else the process exit status
    argWorkers,     \* args.workers
    availPar,       \* thread::available_parallelism(): 0 for Err, else the core count
    inputIsDir,     \* input_dir.is_dir()
    tree,           \* the regular files under input_dir
    walkErr,        \* the directories whose listing fails during the walk
    calc,           \* a savings computation on its own: [st, o, n, file, total]
    other,          \* a second invocation of the tool over the same trees: [pc, todo]
    outCreatable,   \* fs::create_dir_all(&output_dir) succeeds
    workers,        \* the pool size, 0 before it is configured
    outFS,          \* the output tree: existing path -> content (file whose encoding it is)
    all_files,      \* main's all_files
    files,          \* main's files (to convert); a task is an index into it
    skipped,        \* main's skipped
    counter,        \* AtomicUsize counter
    total_original, \* AtomicU64 total_original
    total_new,      \* AtomicU64 total_new
    successful,     \* AtomicUsize successful
    failed,         \* AtomicUsize failed
    wk,             \* the pool's threads: [pc, task, original_size, result]
    taskSt,         \* per task: pending, running, done, panicked, abandoned
    attempts,       \* per task: how many times convert_image was called on it
    results,        \* per task: the ConversionResults convert_image returned for it
    fault,          \* per task: the step whose failure the environment produced
    current,        \* per task: the sequence number it was given, 0 for none
    countLog,       \* the tasks in the order of their counter.fetch_add
    progress,       \* the progress lines printed
    summary,        \* the summary lines printed, << >> before
    panicked,       \* a closure of the for_each panicked
    written,        \* output paths written during this run
    prevClean       \* the previous run dispatched tasks and every one of them succeeded

vars == << run, pc, exitCode, argWorkers, availPar, inputIsDir, tree, walkErr, calc, other,
           outCreatable, workers,
           outFS, all_files, files, skipped, counter, total_original, total_new,
           successful, failed, wk, taskSt, attempts, results, fault, current,
           countLog, progress, summary, panicked, written, prevClean >>

envVars == << argWorkers, availPar, inputIsDir, tree, walkErr, calc, outCreatable >>
atomicVars == << counter, total_original, total_new, successful, failed >>
scanVars == << all_files, files, skipped >>
taskVars == << taskSt, attempts, results, fault, current, countLog >>

NullResult ==
    [input |-> 0, output |-> [dir |-> << >>, stem |-> "", ext |-> << >>],
     success |-> FALSE, message |-> "", original_size |-> 0, new_size |-> 0, savings |-> 0]

IdleWorker == [pc |-> "idle", task |-> 0, original_size |-> 0, result |-> NullResult]

Tasks == 1..Len(files)

\* ------------------------------------------------------------------- Init
\* The input trees tried: any set of the image files, next to all the other files.
InputTrees ==
    { S \in SUBSET AllFiles : \A f \in AllFiles \ S : IsSupported(PathOf(f)) }

NoCalc == [st |-> "off", o |-> 0, n |-> 0, file |-> 0, total |-> 0]

\* A second invocation of the tool over the same trees: not started.
OtherOff == [pc |-> "off", todo |-> {}, passed |-> {}, wrote |-> {}]

\* The directory entries WalkDir yields as Ok: a file below a directory whose listing
\* fails is not among them.
WalkOk(present, errs) ==
    { f \in present :
        \A k \in 1..Len(FileTable(f).dir) : SubSeq(FileTable(f).dir, 1, k) \notin errs }

InitMain ==
    /\ run = 1
    /\ pc = "start"
    /\ exitCode = -1
    /\ argWorkers \in 0..MaxWorkersArg
    /\ availPar \in {0, HostCores}
    /\ (argWorkers > 0 => availPar = HostCores)   \* only read when args.workers = 0
    /\ inputIsDir \in BOOLEAN
    /\ tree \in InputTrees
    /\ walkErr \in {{}, {<<"in", "sub">>}}
    /\ (walkErr # {} => WalkOk(tree, walkErr) # tree)   \* only where it changes the walk
    /\ outCreatable \in BOOLEAN
    /\ workers = 0
    /\ outFS = [p \in {} |-> 0]
    /\ all_files = << >>
    /\ files = << >>
    /\ skipped = 0
    /\ counter = 0 /\ total_original = 0 /\ total_new = 0 /\ successful = 0 /\ failed = 0
    /\ wk = << >>
    /\ taskSt = << >> /\ attempts = << >> /\ results = << >> /\ fault = << >>
    /\ current = << >> /\ countLog = << >>
    /\ progress = {}
    /\ summary = << >>
    /\ panicked = FALSE
    /\ written = {}
    /\ prevClean = FALSE

Init ==
    /\ InitMain
    /\ calc = NoCalc
    /\ other = OtherOff

\* ------------------------------------------------------------ main, serial
\* let workers = if args.workers > 0 {..} else {available_parallelism().unwrap_or(4)}
PoolSize(arg, avail) ==
    IF arg > 0 THEN arg
    ELSE IF avail > 0 THEN avail ELSE DefaultParallelism

\* Mutant of Validate: the missing input directory is reported but main goes on.
ValidateNoExit ==
    /\ pc = "start"
    /\ workers' = PoolSize(argWorkers, availPar)
    /\ pc' = "mkout" /\ exitCode' = exitCode
    /\ UNCHANGED << run, envVars, other, outFS, scanVars, atomicVars, wk, taskVars,
                    progress, summary, panicked, written, prevClean >>

\* main up to the input directory check: the pool is configured, then
\* `if !input_dir.is_dir() { exit(1) }`.
Validate ==
    /\ pc = "start"
    /\ workers' = PoolSize(argWorkers, availPar)
    /\ IF inputIsDir
       THEN pc' = "mkout" /\ exitCode' = exitCode
       ELSE pc' = "exited" /\ exitCode' = ExitFailure
    /\ UNCHANGED << run, envVars, other, outFS, scanVars, atomicVars, wk, taskVars,
                    progress, summary, panicked, written, prevClean >>

\* if let Err(e) = fs::create_dir_all(&output_dir) { exit(1) }
EnsureOutputDir ==
    /\ pc = "mkout"
    /\ IF outCreatable
       THEN pc' = "scan" /\ exitCode' = exitCode
       ELSE pc' = "exited" /\ exitCode' = ExitFailure
    /\ UNCHANGED << run, envVars, other, workers, outFS, scanVars, atomicVars, wk, taskVars,
                    progress, summary, panicked, written, prevClean >>

\* let all_files = get_image_files(&input_dir); if total_found == 0 { return }
Scan ==
    /\ pc = "scan"
    /\ all_files' = get_image_files(WalkOk(tree, walkErr))
    /\ IF Len(all_files') = 0
       THEN pc' = "exited" /\ exitCode' = 0
       ELSE pc' = "filter" /\ exitCode' = exitCode
    /\ UNCHANGED << run, envVars, other, workers, outFS, files, skipped, atomicVars, wk,
                    taskVars, progress, summary, panicked, written, prevClean >>

\* let (files, skipped) = filter_already_converted(..); if total_files == 0 { return };
\* then the five atomics are created and the for_each starts.
Filter ==
    /\ pc = "filter"
    /\ LET r == filter_already_converted(all_files, outFS)
           n == Len(r.to_convert)
       IN  /\ files' = r.to_convert
           /\ skipped' = r.skipped
           /\ IF n = 0
              THEN pc' = "exited" /\ exitCode' = 0 /\ wk' = wk
              ELSE pc' = "convert" /\ exitCode' = exitCode
                   /\ wk' = [w \in 1..workers |-> IdleWorker]
           /\ taskSt' = [t \in 1..n |-> "pending"]
           /\ attempts' = [t \in 1..n |-> 0]
           /\ results' = [t \in 1..n |-> << >>]
           /\ fault' = [t \in 1..n |-> "none"]
           /\ current' = [t \in 1..n |-> 0]
    /\ counter' = 0 /\ total_original' = 0 /\ total_new' = 0
    /\ successful' = 0 /\ failed' = 0
    /\ UNCHANGED << run, envVars, other, workers, outFS, all_files, countLog, progress,
                    summary, panicked, written, prevClean >>


\* ------------------------------------------------- the pool's worker threads
FileOf(t) == files[t]

OutputOf(t) == get_output_path(PathOf(FileOf(t)), input_dir, output_dir)

\* The early returns of convert_image.
Failed(t, msg, osize) ==
    [input |-> FileOf(t), output |-> OutputOf(t), success |-> FALSE, message |-> msg,
     original_size |-> osize, new_size |-> 0, savings |-> 0]

\* The final expression of convert_image.
Succeeded(t, osize, nsize) ==
    [input |-> FileOf(t), output |-> OutputOf(t), success |-> TRUE,
     message |-> "Converted successfully",
     original_size |-> osize, new_size |-> nsize, savings |-> Savings(osize, nsize)]

\* Mutant of fetch_add: the atomic is overwritten (store) instead of added to.
atomic_store(a, v) == v

\* AtomicUsize/AtomicU64::fetch_add: the value stored.
fetch_add(a, v) == a + v

\* rayon hands each item of the slice to one thread of the pool; the threads are
\* interchangeable, so the idle thread of lowest index stands for any idle one.
NextIdle(w) ==
    /\ w \in DOMAIN wk
    /\ wk[w].pc = "idle"
    /\ \A v \in DOMAIN wk : v < w => wk[v].pc # "idle"

\* convert_image returns res for task t on thread w.
Return(w, t, res) ==
    /\ wk' = [wk EXCEPT ![w] = [pc |-> "count", task |-> t,
                                original_size |-> res.original_size, result |-> res]]
    /\ results' = [results EXCEPT ![t] = Append(@, res)]

\* The closure is entered for one file: convert_image computes the output path and
\* runs fs::create_dir_all(parent).
Take(w, t) ==
    /\ pc = "convert"
    /\ NextIdle(w)
    /\ t \in Tasks /\ taskSt[t] = "pending"
    /\ taskSt' = [taskSt EXCEPT ![t] = "running"]
    /\ attempts' = [attempts EXCEPT ![t] = @ + 1]
    /\ \E ok \in BOOLEAN :
         IF ok
         THEN /\ wk' = [wk EXCEPT ![w] = [IdleWorker EXCEPT !.pc = "stat", !.task = t]]
              /\ UNCHANGED << results, fault >>
         ELSE /\ Return(w, t, Failed(t, "Failed to create output dir", 0))
              /\ fault' = [fault EXCEPT ![t] = "dir"]
    /\ UNCHANGED << run, pc, exitCode, envVars, other, workers, outFS, scanVars, atomicVars,
                    current, countLog, progress, summary, panicked, written, prevClean >>

\* fs::metadata(input_path)
Stat(w) ==
    /\ w \in DOMAIN wk /\ wk[w].pc = "stat"
    /\ LET t == wk[w].task IN
       \E ok \in BOOLEAN :
         IF ok
         THEN /\ wk' = [wk EXCEPT ![w].pc = "load",
                                  ![w].original_size = FileTable(FileOf(t)).size]
              /\ UNCHANGED << results, fault >>
         ELSE /\ Return(w, t, Failed(t, "Cannot stat input", 0))
              /\ fault' = [fault EXCEPT ![t] = "stat"]
    /\ UNCHANGED << run, pc, exitCode, envVars, other, workers, outFS, scanVars, atomicVars,
                    taskSt, attempts, current, countLog, progress, summary, panicked,
                    written, prevClean >>

\* Mutant of LoadFails: one undecodable file in the tree fails every decode.
LoadFailsShared(f) == \E g \in tree : IsSupported(PathOf(g)) /\ FileTable(g).corrupt

\* image::open(input_path) returns Err: the content is no image of a known format.
LoadFails(f) == FileTable(f).corrupt

\* Mutant of Load: a failed decode leaves an empty file at the output path.
LoadLeavesEmptyOutput(w) ==
    /\ w \in DOMAIN wk /\ wk[w].pc = "load"
    /\ LET t == wk[w].task IN
         IF ~LoadFails(FileOf(t))
         THEN /\ wk' = [wk EXCEPT ![w].pc = "encode"]
              /\ UNCHANGED << results, fault, outFS >>
         ELSE /\ Return(w, t, Failed(t, "Failed to load image", wk[w].original_size))
              /\ fault' = [fault EXCEPT ![t] = "load"]
              /\ outFS' = WriteFile(outFS, OutputOf(t), 0)
    /\ UNCHANGED << run, pc, exitCode, envVars, other, workers, scanVars, atomicVars,
                    taskSt, attempts, current, countLog, progress, summary, panicked,
                    written, prevClean >>

\* image::open(input_path)
Load(w) ==
    /\ w \in DOMAIN wk /\ wk[w].pc = "load"
    /\ LET t == wk[w].task IN
         IF ~LoadFails(FileOf(t))
         THEN /\ wk' = [wk EXCEPT ![w].pc = "encode"]
              /\ UNCHANGED << results, fault >>
         ELSE /\ Return(w, t, Failed(t, "Failed to load image", wk[w].original_size))
              /\ fault' = [fault EXCEPT ![t] = "load"]
    /\ UNCHANGED << run, pc, exitCode, envVars, other, workers, outFS, scanVars, atomicVars,
                    taskSt, attempts, current, countLog, progress, summary, panicked,
                    written, prevClean >>

\* webp::Encoder::from_image(&img), which returns a Result, then encoder.encode(quality),
\* which does not.
Encode(w) ==
    /\ w \in DOMAIN wk /\ wk[w].pc = "encode"
    /\ LET t == wk[w].task IN
       \E ok \in BOOLEAN :
         IF ok
         THEN /\ wk' = [wk EXCEPT ![w].pc = "write"]
              /\ UNCHANGED << results, fault >>
         ELSE /\ Return(w, t, Failed(t, "Failed to create encoder", wk[w].original_size))
              /\ fault' = [fault EXCEPT ![t] = "encoder"]
    /\ UNCHANGED << run, pc, exitCode, envVars, other, workers, outFS, scanVars, atomicVars,
                    taskSt, attempts, current, countLog, progress, summary, panicked,
                    written, prevClean >>

\* A panic inside the closure (encode has no error return: a failing encoder unwinds).
\* Nothing in the closure catches it: the task ends without a ConversionResult and
\* without touching the atomics.  The panic unwinds through the sequential part of the
\* for_each the thread was running, so the items left in that part (lost) are never run;
\* the pool itself goes on with the other parts.
Panic(w, lost) ==
    /\ w \in DOMAIN wk /\ wk[w].pc = "encode"
    /\ lost \subseteq {u \in Tasks : taskSt[u] = "pending"}
    /\ LET t == wk[w].task IN
         /\ taskSt' = [u \in Tasks |-> IF u = t THEN "panicked"
                                       ELSE IF u \in lost THEN "abandoned"
                                       ELSE taskSt[u]]
         /\ fault' = [fault EXCEPT ![t] = "panic"]
    /\ wk' = [wk EXCEPT ![w] = IdleWorker]
    /\ panicked' = TRUE
    /\ UNCHANGED << run, pc, exitCode, envVars, other, workers, outFS, scanVars, atomicVars,
                    attempts, results, current, countLog, progress, summary, written,
                    prevClean >>

\* fs::write(&output_path, &*webp_data), then the size and savings of the success result.
\* fs::write is File::create followed by write_all: it fails either before the file
\* is created, or after, leaving a truncated file (content 0).
Write(w) ==
    /\ w \in DOMAIN wk /\ wk[w].pc = "write"
    /\ LET t == wk[w].task
           f == FileOf(t)
       IN \E outcome \in {"ok", "create_err", "write_err"} :
            /\ IF outcome = "ok"
               THEN /\ Return(w, t, Succeeded(t, wk[w].original_size, FileTable(f).encoded))
                    /\ fault' = fault
               ELSE /\ Return(w, t, Failed(t, "Failed to write output", wk[w].original_size))
                    /\ fault' = [fault EXCEPT ![t] = "write"]
            /\ IF outcome = "create_err"
               THEN UNCHANGED << outFS, written >>
               ELSE /\ outFS' = WriteFile(outFS, OutputOf(t), IF outcome = "ok" THEN f ELSE 0)
                    /\ written' = written \cup {OutputOf(t)}
    /\ UNCHANGED << run, pc, exitCode, envVars, other, workers, scanVars, atomicVars,
                    taskSt, attempts, current, countLog, progress, summary, panicked,
                    prevClean >>

\* let current = counter.fetch_add(1, Relaxed) + 1
Count(w) ==
    /\ w \in DOMAIN wk /\ wk[w].pc = "count"
    /\ LET t == wk[w].task IN
         /\ counter' = fetch_add(counter, 1)
         /\ current' = [current EXCEPT ![t] = counter + 1]
         /\ countLog' = Append(countLog, t)
    /\ wk' = [wk EXCEPT ![w].pc = "tally"]
    /\ UNCHANGED << run, pc, exitCode, envVars, other, workers, outFS, scanVars, total_original,
                    total_new, successful, failed, taskSt, attempts, results, fault,
                    progress, summary, panicked, written, prevClean >>

ProgressLine(t, res) ==
    [k |-> current[t], total |-> Len(files), file |-> res.input, ok |-> res.success,
     message |-> res.message]

\* The closure returns: the item is done and the thread is free.
Finish(w, t) ==
    /\ wk' = [wk EXCEPT ![w] = IdleWorker]
    /\ taskSt' = [taskSt EXCEPT ![t] = "done"]
    /\ progress' = progress \cup {ProgressLine(t, wk[w].result)}

\* Mutant of Tally: the original size of a failed result is added to the byte total.
TallyFailedBytes(w) ==
    /\ w \in DOMAIN wk /\ wk[w].pc = "tally"
    /\ LET t == wk[w].task IN
         IF wk[w].result.success
         THEN /\ successful' = fetch_add(successful, 1)
              /\ wk' = [wk EXCEPT ![w].pc = "add_original"]
              /\ UNCHANGED << failed, taskSt, progress, total_original >>
         ELSE /\ failed' = fetch_add(failed, 1)
              /\ total_original' = fetch_add(total_original, wk[w].result.original_size)
              /\ Finish(w, t)
              /\ UNCHANGED successful
    /\ UNCHANGED << run, pc, exitCode, envVars, other, workers, outFS, scanVars, counter,
                    total_new, attempts, results, fault, current,
                    countLog, summary, panicked, written, prevClean >>

\* if result.success { successful.fetch_add(1) .. } else { failed.fetch_add(1); println! }
Tally(w) ==
    /\ w \in DOMAIN wk /\ wk[w].pc = "tally"
    /\ LET t == wk[w].task IN
         IF wk[w].result.success
         THEN /\ successful' = fetch_add(successful, 1)
              /\ wk' = [wk EXCEPT ![w].pc = "add_original"]
              /\ UNCHANGED << failed, taskSt, progress >>
         ELSE /\ failed' = fetch_add(failed, 1)
              /\ Finish(w, t)
              /\ UNCHANGED successful
    /\ UNCHANGED << run, pc, exitCode, envVars, other, workers, outFS, scanVars, counter,
                    total_original, total_new, attempts, results, fault, current,
                    countLog, summary, panicked, written, prevClean >>

\* total_original.fetch_add(result.original_size, Relaxed)
AddOriginal(w) ==
    /\ w \in DOMAIN wk /\ wk[w].pc = "add_original"
    /\ total_original' = fetch_add(total_original, wk[w].result.original_size)
    /\ wk' = [wk EXCEPT ![w].pc = "add_new"]
    /\ UNCHANGED << run, pc, exitCode, envVars, other, workers, outFS, scanVars, counter,
                    total_new, successful, failed, taskVars, progress, summary,
                    panicked, written, prevClean >>

\* total_new.fetch_add(result.new_size, Relaxed); println!
AddNew(w) ==
    /\ w \in DOMAIN wk /\ wk[w].pc = "add_new"
    /\ total_new' = fetch_add(total_new, wk[w].result.new_size)
    /\ Finish(w, wk[w].task)
    /\ UNCHANGED << run, pc, exitCode, envVars, other, workers, outFS, scanVars, counter,
                    total_original, successful, failed, attempts, results, fault,
                    current, countLog, summary, panicked, written, prevClean >>

\* ------------------------------------------------------- main, after the pool
\* for_each returns (or re-raises) once no item is left to run and none is running.
ForEachReturned ==
    /\ \A t \in Tasks : taskSt[t] \notin {"pending", "running"}
    /\ \A w \in DOMAIN wk : wk[w].pc = "idle"

\* Mutant of Summary: "Total files" counts the skipped files too.
SummaryOfAllFound ==
    /\ pc = "convert"
    /\ ForEachReturned
    /\ ~panicked
    /\ summary' = << [total_files |-> Len(all_files), successful |-> successful,
                      failed |-> failed, total_original |-> total_original,
                      total_new |-> total_new,
                      total_savings |-> total_savings(total_original, total_new)] >>
    /\ pc' = "exited"
    /\ exitCode' = 0
    /\ UNCHANGED << run, envVars, other, workers, outFS, scanVars, atomicVars, wk, taskVars,
                    progress, panicked, written, prevClean >>

\* The four loads and the summary; main returns.
Summary ==
    /\ pc = "convert"
    /\ ForEachReturned
    /\ ~panicked
    /\ summary' = << [total_files |-> Len(files), successful |-> successful,
                      failed |-> failed, total_original |-> total_original,
                      total_new |-> total_new,
                      total_savings |-> total_savings(total_original, total_new)] >>
    /\ pc' = "exited"
    /\ exitCode' = 0
    /\ UNCHANGED << run, envVars, other, workers, outFS, scanVars, atomicVars, wk, taskVars,
                    progress, panicked, written, prevClean >>

\* for_each re-raises a closure's panic on the calling thread: main unwinds, no
\* summary is printed and the process exits with the panic status.
Unwind ==
    /\ pc = "convert"
    /\ ForEachReturned
    /\ panicked
    /\ pc' = "exited"
    /\ exitCode' = ExitPanic
    /\ UNCHANGED << run, envVars, other, workers, outFS, scanVars, atomicVars, wk, taskVars,
                    progress, summary, panicked, written, prevClean >>

\* Every dispatched task of the run produced a success result.
RunClean ==
    /\ exitCode = 0
    /\ Len(files) > 0
    /\ \A t \in Tasks : Len(results[t]) = 1 /\ results[t][1].success

\* The tool is invoked again over the same input and output trees.
NextRun ==
    /\ pc = "exited"
    /\ run < MaxRuns
    /\ run' = run + 1
    /\ prevClean' = RunClean
    /\ pc' = "start"
    /\ exitCode' = -1
    /\ workers' = 0
    /\ all_files' = << >> /\ files' = << >> /\ skipped' = 0
    /\ counter' = 0 /\ total_original' = 0 /\ total_new' = 0
    /\ successful' = 0 /\ failed' = 0
    /\ wk' = << >>
    /\ taskSt' = << >> /\ attempts' = << >> /\ results' = << >> /\ fault' = << >>
    /\ current' = << >> /\ countLog' = << >>
    /\ progress' = {}
    /\ summary' = << >>
    /\ panicked' = FALSE
    /\ written' = {}
    /\ UNCHANGED << envVars, other, outFS >>

Next ==
    \/ Validate
    \/ EnsureOutputDir
    \/ Scan
    \/ Filter
    \/ \E w \in 1..workers, t \in Tasks : Take(w, t)
    \/ \E w \in 1..workers : Stat(w)
    \/ \E w \in 1..workers : Load(w)
    \/ \E w \in 1..workers : Encode(w)
    \/ \E w \in 1..workers : \E lost \in SUBSET Tasks : Panic(w, lost)
    \/ \E w \in 1..workers : Write(w)
    \/ \E w \in 1..workers : Count(w)
    \/ \E w \in 1..workers : Tally(w)
    \/ \E w \in 1..workers : AddOriginal(w)
    \/ \E w \in 1..workers : AddNew(w)
    \/ Summary
    \/ Unwind
    \/ NextRun

Spec == Init /\ [][Next]_vars


\* ================================================================ properties
RunEnded == pc = "exited"

\* The tasks that have a result, a success result, a failure result.
WithResult == {t \in Tasks : Len(results[t]) > 0}
Successes == {t \in WithResult : results[t][1].success}
Failures == {t \in WithResult : ~results[t][1].success}

RECURSIVE SumOriginal(_)
SumOriginal(S) ==
    IF S = {} THEN 0
    ELSE LET t == CHOOSE u \in S : TRUE
         IN  results[t][1].original_size + SumOriginal(S \ {t})

RECURSIVE SumNew(_)
SumNew(S) ==
    IF S = {} THEN 0
    ELSE LET t == CHOOSE u \in S : TRUE
         IN  results[t][1].new_size + SumNew(S \ {t})

\* C1: every dispatched task is converted exactly once and yields exactly one
\* ConversionResult: never two attempts or two results, and at the end of the run no
\* task is left without its result.
C1_OneResultPerTask ==
    /\ \A t \in Tasks : attempts[t] <= 1 /\ Len(results[t]) <= 1
    /\ RunEnded => \A t \in Tasks : attempts[t] = 1 /\ Len(results[t]) = 1

\* C2: at the end of a run that reached the parallel stage the completion counter is
\* the number of dispatched tasks and successful + failed equals it.
C2_CountersAtEnd ==
    (RunEnded /\ Len(files) > 0) =>
        /\ counter = Len(files)
        /\ successful + failed = counter

\* C3: whatever the interleaving, once the for_each is over the byte totals are the
\* sums over exactly the success results and the two counts are the numbers of
\* success and failure results; the summary prints these values.
C3_TotalsAreSums ==
    (pc = "convert" /\ ForEachReturned) \/ (RunEnded /\ Len(files) > 0) =>
        /\ total_original = SumOriginal(Successes)
        /\ total_new = SumNew(Successes)
        /\ successful = Cardinality(Successes)
        /\ failed = Cardinality(Failures)
        /\ summary # << >> =>
             /\ summary[1].total_original = SumOriginal(Successes)
             /\ summary[1].total_new = SumNew(Successes)
             /\ summary[1].successful = Cardinality(Successes)
             /\ summary[1].failed = Cardinality(Failures)

\* Two successes and a failure were aggregated, not in input order, and summed up.
C3_Witness ==
    /\ summary # << >>
    /\ Cardinality(Successes) = 2 /\ Cardinality(Failures) = 1
    /\ current[1] > current[3]
    /\ summary[1].total_original = 1400 /\ summary[1].total_new = 950

\* C4: a panic while converting one file becomes a Failed result of that file; the
\* other tasks still complete and the run reaches the summary.
C4_PanicBecomesFailed ==
    RunEnded =>
        \A t \in Tasks :
            fault[t] = "panic" =>
                /\ Len(results[t]) = 1 /\ ~results[t][1].success
                /\ \A u \in Tasks : taskSt[u] = "done"
                /\ summary # << >>


\* What convert_image returns for task t given the failure the environment produced
\* for t itself; nothing of any other task enters it.
OwnOutcome(t) ==
    LET f == FileOf(t)
        size == FileTable(f).size
    IN  CASE fault[t] = "none" -> Succeeded(t, size, FileTable(f).encoded)
          [] fault[t] = "dir" -> Failed(t, "Failed to create output dir", 0)
          [] fault[t] = "stat" -> Failed(t, "Cannot stat input", 0)
          [] fault[t] = "load" -> Failed(t, "Failed to load image", size)
          [] fault[t] = "encoder" -> Failed(t, "Failed to create encoder", size)
          [] fault[t] = "write" -> Failed(t, "Failed to write output", size)
          [] OTHER -> NullResult

StepFaults == {"dir", "stat", "load", "encoder", "write"}

C7_SequenceNumbers ==
    /\ \A t \in Tasks : current[t] # 0 => Len(results[t]) = 1
    /\ \A t, u \in Tasks : (t # u /\ current[t] # 0) => current[t] # current[u]
    /\ \A i, j \in 1..Len(countLog) : i < j => current[countLog[i]] < current[countLog[j]]
    /\ (RunEnded /\ Len(files) > 0) => {current[t] : t \in Tasks} = 1..Len(files)

\* C8: with the input directory missing or the output directory not creatable the run
\* exits with status 1 before the scan: nothing is scanned, no task is dispatched, no
\* thread of the pool runs and no output file is written.
C8_FatalAbort ==
    /\ (~inputIsDir \/ ~outCreatable) =>
         /\ pc \in {"start", "mkout", "exited"}
         /\ all_files = << >> /\ files = << >> /\ wk = << >>
         /\ written = {} /\ DOMAIN outFS = {} /\ progress = {} /\ summary = << >>
         /\ RunEnded => exitCode = ExitFailure
    /\ exitCode = ExitFailure => (~inputIsDir \/ ~outCreatable)

\* The input directory exists, the output directory cannot be created: exit 1.
C8_Witness ==
    /\ inputIsDir /\ ~outCreatable /\ RunEnded /\ exitCode = ExitFailure
    /\ tree # {} /\ all_files = << >>

\* C9: once the two directory checks passed, the process exits with status 0 whatever
\* happened to the individual files.
C9_ExitsSuccessfully ==
    (RunEnded /\ inputIsDir /\ outCreatable) => exitCode = 0

\* C10: the summary is produced only when no task is pending or running, and no
\* dispatched task is ever cancelled or abandoned.
C10_AllTasksRunToCompletion ==
    /\ summary # << >> =>
         /\ \A t \in Tasks : taskSt[t] = "done"
         /\ \A w \in DOMAIN wk : wk[w].pc = "idle"
    /\ \A t \in Tasks : taskSt[t] \notin {"panicked", "abandoned"}
    /\ RunEnded => \A t \in Tasks : taskSt[t] = "done"


\* ------------------------------------------------------------------ scanner
\* Two characters are the same letter up to case.
SameLetter(c, d) ==
    \/ c = d
    \/ \E i \in 1..Len(Upper) : {c, d} = {Upper[i], Lower[i]}

EqIgnoreCase(a, b) ==
    Len(a) = Len(b) /\ \A i \in 1..Len(a) : SameLetter(a[i], b[i])

\* The file has an extension that is, up to case, one of the supported ones.
IsImageName(f) ==
    /\ FileTable(f).ext # << >>
    /\ \E e \in SUPPORTED_EXTENSIONS : EqIgnoreCase(FileTable(f).ext, e)

\* get_image_files has returned and the filter has not run yet.
Scanned == pc = "filter"

Elements(seq) == {seq[i] : i \in 1..Len(seq)}

NoDuplicates(seq) == \A i, j \in 1..Len(seq) : i # j => seq[i] # seq[j]

\* C11 as stated: the scan output holds every regular file under the input tree with
\* a supported extension (case-insensitive), each once, and no other file.
C11_ScanFindsEveryImage ==
    Scanned =>
        /\ Elements(all_files) = {f \in tree : IsImageName(f)}
        /\ NoDuplicates(all_files)

\* C11 amended: the same of the files the walk yields without error; a file below a
\* directory that cannot be listed is dropped silently.
C11_ScanFindsWalkedImages ==
    Scanned =>
        /\ Elements(all_files) = {f \in WalkOk(tree, walkErr) : IsImageName(f)}
        /\ NoDuplicates(all_files)

\* Lower, upper and mixed case extensions were found next to a .txt file and a file
\* without extension, which were not.
C11_Witness ==
    /\ pc = "filter"
    /\ all_files = <<1, 3, 4>>
    /\ {2, 5} \subseteq tree


\* ------------------------------------------------------- savings, on its own
\* The sizes the two savings expressions are tried on.
Sizes == (0..MaxSize) \cup {500, 1000}

InitSavings ==
    /\ InitMain
    /\ argWorkers = 1 /\ inputIsDir /\ outCreatable /\ tree = AllFiles /\ walkErr = {}
    /\ other = OtherOff
    /\ calc \in [st : {"in"}, o : Sizes, n : Sizes, file : {0}, total : {0}]

\* convert_image's savings and main's total_savings, applied to the same two sizes.
ComputeSavings ==
    /\ calc.st = "in"
    /\ calc' = [calc EXCEPT !.st = "out",
                            !.file = Savings(calc.o, calc.n),
                            !.total = total_savings(calc.o, calc.n)]
    /\ UNCHANGED << run, pc, exitCode, argWorkers, availPar, inputIsDir, tree, walkErr,
                    other, outCreatable, workers, outFS, scanVars, atomicVars, wk,
                    taskVars, progress, summary, panicked, written, prevClean >>

NextSavings == ComputeSavings

SpecSavings == InitSavings /\ [][NextSavings]_vars

Abs(x) == IF x >= 0 THEN x ELSE -x

\* x hundredths of a percent is (1 - n/o) * 100 rounded to two decimals.
IsRounded(x, o, n) == 2 * Abs(x * o - (o - n) * 10000) <= o

\* C12: the savings of a result is 0 when original_size is 0 and otherwise
\* (1 - new_size/original_size) * 100 rounded to two decimals, 50.00 for 1000 and 500;
\* the summary's overall savings follows the same rule on the totals.
C12_SavingsRule ==
    calc.st = "out" =>
        /\ calc.o = 0 => (calc.file = 0 /\ calc.total = 0)
        /\ calc.o > 0 => (IsRounded(calc.file, calc.o, calc.n)
                          /\ IsRounded(calc.total, calc.o, calc.n))
        /\ (calc.o = 1000 /\ calc.n = 500) => (calc.file = 5000 /\ calc.total = 5000)
        /\ calc.total = calc.file

\* The zero guard was taken: original size 0 with a non-empty output gives 0.
C12_Witness ==
    calc.st = "out" /\ calc.o = 0 /\ calc.n = 500 /\ calc.file = 0 /\ calc.total = 0


\* ------------------------------------------------------------------- filter
MappedOutput(f) == get_output_path(PathOf(f), input_dir, output_dir)

\* C13: the filter partitions the candidates by the existence of the mapped output at
\* the time of the check: those with an existing output are counted as skipped, the
\* others become the tasks, in order; the two groups add up to the candidates and the
\* filter leaves the output tree as it is.
C13_FilterPartitions ==
    [][ pc = "filter" =>
          /\ files' = SelectSeq(all_files, LAMBDA f : MappedOutput(f) \notin DOMAIN outFS)
          /\ skipped' = Cardinality({i \in 1..Len(all_files) :
                                        MappedOutput(all_files[i]) \in DOMAIN outFS})
          /\ skipped' + Len(files') = Len(all_files)
          /\ outFS' = outFS /\ written' = written ]_vars

\* A second run skipped the two files whose output exists and dispatched the third.
C13_Witness ==
    /\ run = 2 /\ pc = "convert"
    /\ all_files = <<1, 3, 4>> /\ skipped = 2 /\ files = <<3>>
    /\ DOMAIN outFS = {MappedOutput(1)}


\* ------------------------------------------------------------ convert_image
\* The steps of convert_image in their order; the encoder step is the construction of
\* the encoder followed by the encode call.
StepOrder == << "dir", "stat", "load", "encoder", "write" >>

StepMessage(step) ==
    CASE step = "dir" -> "Failed to create output dir"
      [] step = "stat" -> "Cannot stat input"
      [] step = "load" -> "Failed to load image"
      [] step = "encoder" -> "Failed to create encoder"
      [] step = "write" -> "Failed to write output"
      [] OTHER -> "Failed to encode"

\* The step a thread inside convert_image is about to run.
StepOfPc(p) ==
    CASE p = "stat" -> 2 [] p = "load" -> 3 [] p = "encode" -> 4 [] p = "write" -> 5
      [] OTHER -> 6

\* C14: the steps run in the order directory, stat, decode, encoder/encode, write; the
\* first step that fails gives a Failed result naming it and no later step runs; input
\* and output are set in every result, original_size is 0 for a directory or stat
\* failure and the stat size for a decode, encode or write failure, new_size and
\* savings are 0 in every Failed result.
C14_StepsShortCircuit ==
    /\ \A t \in Tasks :
         /\ \A i \in 1..Len(results[t]) :
              /\ results[t][i].input = FileOf(t)
              /\ results[t][i].output = MappedOutput(FileOf(t))
              /\ results[t][i].success <=> fault[t] = "none"
         /\ fault[t] # "none" =>
              /\ Len(results[t]) = 1
              /\ ~results[t][1].success
              /\ fault[t] # "panic" => results[t][1].message = StepMessage(fault[t])
              /\ results[t][1].original_size =
                    IF fault[t] \in {"dir", "stat"} THEN 0 ELSE FileTable(FileOf(t)).size
              /\ results[t][1].new_size = 0
              /\ results[t][1].savings = 0
              /\ \A w \in DOMAIN wk :
                    wk[w].task = t => wk[w].pc \in {"count", "tally"}
    /\ \A w \in DOMAIN wk :
         wk[w].pc \in {"stat", "load", "encode", "write"} =>
            /\ fault[wk[w].task] = "none"
            /\ results[wk[w].task] = << >>
    /\ [][ \A w \in DOMAIN wk :
             (w \in DOMAIN wk' /\ wk[w].pc \in {"stat", "load", "encode", "write"}) =>
                \/ wk'[w] = wk[w]
                \/ /\ wk'[w].pc \in {"stat", "load", "encode", "write"}
                   /\ StepOfPc(wk'[w].pc) = StepOfPc(wk[w].pc) + 1
                   /\ wk'[w].task = wk[w].task
                \/ /\ wk'[w].pc = "count"
                   /\ wk'[w].task = wk[w].task
                   /\ \/ wk'[w].result.success /\ wk[w].pc = "write"
                      \/ /\ ~wk'[w].result.success
                         /\ wk'[w].result.message =
                               StepMessage(StepOrder[StepOfPc(wk[w].pc)]) ]_vars


\* -------------------------------------------------------------- aggregation
\* The tasks whose result has passed the given points of the closure.
HeldAt(t, pcs) == \E w \in DOMAIN wk : wk[w].task = t /\ wk[w].pc \in pcs
Counted == {t \in WithResult : current[t] # 0}
Tallied == {t \in WithResult : taskSt[t] = "done" \/ HeldAt(t, {"add_original", "add_new"})}
OriginalAdded == {t \in Successes : taskSt[t] = "done" \/ HeldAt(t, {"add_new"})}
NewAdded == {t \in Successes : taskSt[t] = "done"}

\* C15: aggregating a result adds one to the completion counter and one to exactly one
\* of successful / failed; only a success result changes the byte totals: a Failed
\* result leaves total_original, total_new and successful as they are, whatever its
\* original_size.
C15_AggregationFrame ==
    /\ [](/\ counter = Cardinality(Counted)
          /\ successful = Cardinality(Tallied \cap Successes)
          /\ failed = Cardinality(Tallied \cap Failures)
          /\ total_original = SumOriginal(OriginalAdded)
          /\ total_new = SumNew(NewAdded)
          /\ \A t \in Tasks : taskSt[t] = "done" => t \in Counted /\ t \in Tallied)
    /\ [][ pc = "convert" =>
             /\ counter' \in {counter, counter + 1}
             /\ successful' + failed' - (successful + failed) \in {0, 1}
             /\ successful' >= successful /\ failed' >= failed
             /\ failed' # failed =>
                   UNCHANGED << counter, successful, total_original, total_new >>
             /\ counter' # counter =>
                   UNCHANGED << successful, failed, total_original, total_new >> ]_vars

\* A run with one success and one decode failure that carries its stat size: the
\* totals hold the success only.
C15_Witness ==
    /\ RunEnded /\ summary # << >>
    /\ \E t \in Failures : results[t][1].original_size = 300
    /\ counter = 2 /\ successful = 1 /\ failed = 1
    /\ total_original = 1000 /\ total_new = 500


\* --------------------------------------------------------- output collisions
\* Two dispatched tasks that map to one output path.
Colliding(t, u) == t # u /\ OutputOf(t) = OutputOf(u)

C16_WitnessOtherOrder ==
    /\ RunEnded /\ summary # << >>
    /\ files = << 1, 4 >> /\ Successes = {1, 2}
    /\ summary[1].successful = 2
    /\ outFS[MappedOutput(4)] = 4

\* Both colliding tasks are inside their write step at the same time.
C16_WitnessConcurrentWrites ==
    /\ workers = 2 /\ files = << 1, 4 >>
    /\ \A w \in DOMAIN wk : wk[w].pc = "write"


\* ------------------------------------------------- two concurrent invocations
\* A second invocation of the tool runs over the same input and output trees while
\* this one does.  Of the second only its filter and its writes are modelled; the data
\* it writes are marked with a minus sign.
InitRace ==
    /\ InitMain
    /\ argWorkers = 1 /\ inputIsDir /\ outCreatable /\ walkErr = {}
    /\ calc = NoCalc
    /\ other = [OtherOff EXCEPT !.pc = "start"]

\* The second invocation's scan and filter_already_converted.
OtherFilter ==
    /\ other.pc = "start"
    /\ LET r == filter_already_converted(get_image_files(WalkOk(tree, walkErr)), outFS)
           S == {r.to_convert[i] : i \in DOMAIN r.to_convert}
       IN  other' = [other EXCEPT !.pc = "convert", !.todo = S, !.passed = S]
    /\ UNCHANGED << run, pc, exitCode, envVars, workers, outFS, scanVars, atomicVars, wk,
                    taskVars, progress, summary, panicked, written, prevClean >>

\* The second invocation's convert_image of file f: its fs::write when the file decodes.
OtherConvert(f) ==
    /\ other.pc = "convert"
    /\ f \in other.todo
    /\ IF LoadFails(f)
       THEN /\ outFS' = outFS
            /\ other' = [other EXCEPT !.todo = @ \ {f}]
       ELSE /\ outFS' = WriteFile(outFS, get_output_path(PathOf(f), input_dir, output_dir),
                                  0 - f)
            /\ other' = [other EXCEPT !.todo = @ \ {f},
                           !.wrote = @ \cup {get_output_path(PathOf(f), input_dir,
                                                             output_dir)}]
    /\ UNCHANGED << run, pc, exitCode, envVars, workers, scanVars, atomicVars, wk,
                    taskVars, progress, summary, panicked, written, prevClean >>

NextRace ==
    \/ Next
    \/ OtherFilter
    \/ \E f \in AllFiles : OtherConvert(f)

SpecRace == InitRace /\ [][NextRace]_vars

\* C17: nothing ties the filter's existence check to the later write and the write
\* does not check again: a task dispatched by the filter is converted even when its
\* output has appeared since, and its successful write replaces what is there.
C17_WriteDoesNotRecheck ==
    /\ [][ \A w \in DOMAIN wk :
             ( /\ wk[w].pc = "write" /\ w \in DOMAIN wk' /\ wk'[w].pc = "count"
               /\ wk'[w].result.success
               /\ OutputOf(wk[w].task) \in DOMAIN outFS )
             => outFS'[OutputOf(wk[w].task)] = FileOf(wk[w].task) ]_vars
    /\ [][ pc = "convert" => files' = files ]_vars
    /\ []( (RunEnded /\ exitCode = 0) => \A t \in Tasks : Len(results[t]) = 1 )

\* Duplicate work: in/a.jpg passed the filter of both invocations, the second wrote
\* out/a.webp after this one's filter had found it absent, and this one's task then
\* converted the file too and overwrote it.
C17_Witness ==
    /\ run = 1 /\ RunEnded
    /\ 1 \in other.passed
    /\ MappedOutput(1) \in other.wrote
    /\ \E t \in Successes : FileOf(t) = 1
    /\ outFS[MappedOutput(1)] = 1


\* ---------------------------------------------------------------- the pool
\* The tasks inside convert_image or the rest of the closure.
InFlight == {t \in Tasks : taskSt[t] = "running"}

SkippedFiles == {all_files[i] : i \in 1..Len(all_files)} \ {files[t] : t \in Tasks}

\* C19: in a run that reaches the summary every scanned candidate is in exactly one of
\* the buckets skipped, successful, failed: the three counts add up to the number of
\* candidates found, and the summary's total is that number less the skipped ones.
C19_SkippedIsOwnBucket ==
    summary # << >> =>
        /\ Len(all_files) = skipped + successful + failed
        /\ skipped = Cardinality(SkippedFiles)
        /\ successful = Cardinality({FileOf(t) : t \in Successes})
        /\ failed = Cardinality({FileOf(t) : t \in Failures})
        /\ \A i \in 1..Len(all_files) :
              LET f == all_files[i]
                  b == << f \in SkippedFiles,
                          \E t \in Successes : FileOf(t) = f,
                          \E t \in Failures : FileOf(t) = f >>
              IN  Cardinality({k \in 1..3 : b[k]}) = 1
        /\ summary[1].total_files = Len(all_files) - skipped
        /\ summary[1].successful + summary[1].failed = summary[1].total_files

\* A second run found three candidates, skipped two and failed on the third.
C19_Witness ==
    /\ run = 2 /\ summary # << >>
    /\ Len(all_files) = 3 /\ skipped = 2 /\ successful = 0 /\ failed = 1
    /\ summary[1].total_files = 1

\* A first run: nothing skipped, one success and one failure.
C19_WitnessFirstRun ==
    /\ run = 1 /\ summary # << >>
    /\ Len(all_files) = 2 /\ skipped = 0 /\ successful = 1 /\ failed = 1


\* ------------------------------------------------- failures before the write
\* The steps of convert_image before fs::write.
EarlyFaults == {"dir", "stat", "load", "encoder"}

\* What the filter of a next run over the same trees would push.
NextDispatch ==
    LET r == filter_already_converted(get_image_files(WalkOk(tree, walkErr)), outFS)
    IN  {r.to_convert[i] : i \in DOMAIN r.to_convert}

\* A thread returns from convert_image with a failure of a step before the write.
ReturnsEarly(w) ==
    /\ w \in DOMAIN wk /\ w \in DOMAIN wk'
    /\ wk[w].pc \in {"idle", "stat", "load", "encode"}
    /\ wk'[w].pc = "count"

C20_WitnessSecondRun ==
    /\ run = 2 /\ pc = "convert"
    /\ all_files = << 1, 3 >> /\ files = << 3 >> /\ skipped = 1

====
